---- MODULE Spec2Model ----
(***************************************************************************)
(* Model of maschinengott/src/disassembler.rs: disassemble() decodes a     *)
(* byte buffer with the iced_x86 decoder, renders one text line per        *)
(* instruction in a rayon parallel map, counts mnemonics in a HashMap and  *)
(* collects the CPUID feature names in first-seen order.                   *)
(*                                                                         *)
(* Text is a sequence of one-character strings.  A u64 is a tuple of four  *)
(* 16-bit limbs, most significant first, so that the arithmetic on         *)
(* addresses keeps its 64-bit width.                                       *)
(***************************************************************************)
EXTENDS Integers, Sequences, FiniteSets, TLC

VARIABLES
    bytes,                \* disassemble's `bytes`: a sequence of 0..255
    code,                 \* what `bytes` encodes: the instruction shapes, in order
    rip,                  \* disassemble's `rip`: u64
    use_binary,           \* disassemble's `use_binary`
    use_intel,            \* disassemble's `use_intel`
    pc,                   \* position inside disassemble
    instructions,         \* Vec<Instruction> collected from the decoder
    slot,                 \* per-instruction output slot of the parallel map
    finished,             \* indices of the rendering tasks, in completion order
    reordered,            \* some task finished after a task of a later instruction
    assembly,             \* Vec<String> returned by extract_assembly
    most_used_instructions,
    isa_extensions_used,
    result,               \* the DisassemblerResult handed to the caller
    call,                 \* 1 during the first call, 2 during a repeated call
    first                 \* the first call's flags and result, kept by the caller

vars == <<bytes, code, rip, use_binary, use_intel, pc, instructions, slot,
          finished, reordered, assembly, most_used_instructions, isa_extensions_used,
          result, call, first>>

(***************************************************************************)
(* Bounds of the model.                                                    *)
(***************************************************************************)
MaxInstr == 3        \* instructions per buffer, single-call specification
MaxInstrTwice == 2   \* instructions per buffer, two-call specification
MaxLen == 15         \* bytes of the instruction rendered in the one-line specification

NoLine == <<"<none>">>
NoResult == [none |-> TRUE]

(***************************************************************************)
(* u64 arithmetic.                                                         *)
(***************************************************************************)
LimbBase == 2^16

U64Zero == <<0, 0, 0, 0>>

U64FromSmall(n) == <<0, 0, 0, n>>

\* u64::wrapping_add: the carry out of the top limb is dropped.
U64WrappingAdd(a, b) ==
    LET s4 == a[4] + b[4]
        s3 == a[3] + b[3] + (s4 \div LimbBase)
        s2 == a[2] + b[2] + (s3 \div LimbBase)
        s1 == a[1] + b[1] + (s2 \div LimbBase)
    IN  <<s1 % LimbBase, s2 % LimbBase, s3 % LimbBase, s4 % LimbBase>>

\* a - b on u64: the two's complement difference and whether it underflowed.
U64Sub(a, b) ==
    LET d4 == a[4] - b[4]
        d3 == a[3] - b[3] - (IF d4 < 0 THEN 1 ELSE 0)
        d2 == a[2] - b[2] - (IF d3 < 0 THEN 1 ELSE 0)
        d1 == a[1] - b[1] - (IF d2 < 0 THEN 1 ELSE 0)
    IN  [diff |-> <<(d1 + LimbBase) % LimbBase, (d2 + LimbBase) % LimbBase,
                    (d3 + LimbBase) % LimbBase, (d4 + LimbBase) % LimbBase>>,
         underflow |-> d1 < 0]

\* a <= b on u64.
U64Leq(a, b) == ~U64Sub(b, a).underflow

\* `as usize` on a 64-bit target keeps the value; an index of 2^16 or more is
\* past the end of every buffer of the model and is reported as LimbBase.
AsUsize(a) == IF a[1] = 0 /\ a[2] = 0 /\ a[3] = 0 THEN a[4] ELSE LimbBase

(***************************************************************************)
(* Number formatting, as core::fmt does it: the minimal digits of the      *)
(* value, then zeros in front up to the minimum width.  A value with more  *)
(* digits than the width is written in full.                               *)
(***************************************************************************)
DigitChar == <<"0", "1", "2", "3", "4", "5", "6", "7",
               "8", "9", "A", "B", "C", "D", "E", "F">>

Repeat(c, n) == [i \in 1..n |-> c]

\* exactly `count` digits of n in `base`, most significant first
FixedDigits(n, base, count) ==
    [i \in 1..count |-> DigitChar[((n \div (base ^ (count - i))) % base) + 1]]

\* the digits from the first that is not zero, or the last digit of a zero
StripLeadingZeros(d) ==
    LET significant == {i \in 1..Len(d) : d[i] # "0"} \cup {Len(d)}
    IN  SubSeq(d, CHOOSE i \in significant : \A j \in significant : i <= j, Len(d))

ZeroPad(d, width) == Repeat("0", width - Len(d)) \o d

\* the digits a 16-bit limb contributes: 16 in base 2, 4 in base 16
LimbDigits(base) == IF base = 2 THEN 16 ELSE 4

\* format!("{:0width$b}", v) and format!("{:0width$X}", v) for a u64
FormatU64(v, base, width) ==
    LET n == LimbDigits(base)
        full == FixedDigits(v[1], base, n) \o FixedDigits(v[2], base, n)
                \o FixedDigits(v[3], base, n) \o FixedDigits(v[4], base, n)
    IN  ZeroPad(StripLeadingZeros(full), width)

\* format!("{:08b}", b) and format!("{:02X}", b) for a u8
FormatU8(b, base, width) ==
    ZeroPad(StripLeadingZeros(FixedDigits(b, base, IF base = 2 THEN 8 ELSE 2)), width)

\* padding that honours the `0` flag as it does for numbers
PadStrZeroFill(s, width) == Repeat("0", width - Len(s)) \o s

\* Formatter::pad for a string argument: strings are left-aligned and filled
\* with spaces; the `0` flag only changes how numbers are padded, and the
\* width is a minimum, so a longer string is written in full.
PadStr(s, width) == s \o Repeat(" ", width - Len(s))

(***************************************************************************)
(* Debug names and case conversion.                                        *)
(***************************************************************************)
UpperChars == <<"A", "B", "C", "D", "E", "F", "G", "H", "I", "J", "K", "L", "M",
                "N", "O", "P", "Q", "R", "S", "T", "U", "V", "W", "X", "Y", "Z">>
LowerChars == <<"a", "b", "c", "d", "e", "f", "g", "h", "i", "j", "k", "l", "m",
                "n", "o", "p", "q", "r", "s", "t", "u", "v", "w", "x", "y", "z">>

ToLowerChar(c) ==
    IF \E i \in 1..26 : UpperChars[i] = c
    THEN LowerChars[CHOOSE i \in 1..26 : UpperChars[i] = c]
    ELSE c

\* str::to_lowercase
ToLowercase(s) == [i \in 1..Len(s) |-> ToLowerChar(s[i])]

\* format!("{:?}", mnemonic): the variant's name
MnemonicDebug(m) ==
    CASE m = "INVALID" -> <<"I", "N", "V", "A", "L", "I", "D">>
      [] m = "Nop"     -> <<"N", "o", "p">>
      [] m = "Mov"     -> <<"M", "o", "v">>
      [] m = "Vaesenc" -> <<"V", "a", "e", "s", "e", "n", "c">>

\* format!("{:?}", feature): the variant's name
FeatureDebug(f) ==
    CASE f = "INTEL8086" -> <<"I", "N", "T", "E", "L", "8", "0", "8", "6">>
      [] f = "X64"       -> <<"X", "6", "4">>
      [] f = "AES"       -> <<"A", "E", "S">>
      [] f = "AVX"       -> <<"A", "V", "X">>

(***************************************************************************)
(* The Instruction Source.  iced_x86 is outside the repository; the model  *)
(* samples its output over four instruction shapes.  A shape fixes what    *)
(* the code reads from an Instruction: len(), mnemonic(), cpuid_features(),*)
(* op_code().op_code_string() and the two formatters' text.  The decoder   *)
(* has no failure value: a region it cannot parse comes back as one more   *)
(* Instruction, of mnemonic INVALID.  One feature list repeats a tag, the  *)
(* case extract_isa_extensions tests for with `contains`.                  *)
(***************************************************************************)
Shapes == {
    [mnemonic |-> "Nop", encoding |-> <<144>>,
     features |-> <<"INTEL8086">>,
     op_code_string |-> <<"N", "P", " ", "9", "0">>,
     intel |-> <<"n", "o", "p">>, gas |-> <<"n", "o", "p">>],
    [mnemonic |-> "INVALID", encoding |-> <<6>>,
     features |-> <<>>,
     op_code_string |-> <<"<", "i", "n", "v", "a", "l", "i", "d", ">">>,
     intel |-> <<"(", "b", "a", "d", ")">>, gas |-> <<"(", "b", "a", "d", ")">>],
    [mnemonic |-> "Mov", encoding |-> <<72, 184, 0, 15, 165, 255, 16, 1, 127, 128>>,
     features |-> <<"X64">>,
     op_code_string |-> <<"o", "6", "4", " ", "B", "8", "+", "r", "o", " ", "i", "o">>,
     intel |-> <<"m", "o", "v">>, gas |-> <<"m", "o", "v", "q">>],
    [mnemonic |-> "Vaesenc",
     encoding |-> <<38, 46, 54, 100, 103, 196, 226, 113, 220, 132, 136, 68, 51, 34, 17>>,
     features |-> <<"AVX", "AES", "AVX">>,
     op_code_string |-> <<"V", "E", "X", " ", "D", "C", " ", "/", "r">>,
     intel |-> <<"v", "a", "e", "s", "e", "n", "c">>,
     gas |-> <<"v", "a", "e", "s", "e", "n", "c">>] }

RECURSIVE Encode(_)
Encode(shapes) ==
    IF shapes = <<>> THEN <<>> ELSE Head(shapes).encoding \o Encode(Tail(shapes))

\* Decoder::with_ip(bitness, bytes, rip, NONE).iter().collect(): one Instruction
\* per shape the buffer encodes, the i-th at ip = rip + (bytes before it), the
\* sum taken modulo 2^64 as the decoder's instruction pointer is.
RECURSIVE DecodeFrom(_, _)
DecodeFrom(shapes, ip) ==
    IF shapes = <<>> THEN <<>>
    ELSE LET s == Head(shapes)
             instruction ==
                 [ip |-> ip, len |-> Len(s.encoding), mnemonic |-> s.mnemonic,
                  cpuid_features |-> s.features, op_code_string |-> s.op_code_string,
                  intel |-> s.intel, gas |-> s.gas]
         IN  <<instruction>>
             \o DecodeFrom(Tail(shapes), U64WrappingAdd(ip, U64FromSmall(Len(s.encoding))))

(***************************************************************************)
(* extract_assembly: the closure run for one instruction.                  *)
(***************************************************************************)
\* the hexadecimal width taken for both modes
WidthNarrow(binary) == 32

\* let width = if use_binary { 64 + 16 } else { 32 };
Width(binary) == IF binary THEN 64 + 16 ELSE 32

\* formatter.format(&instruction, &mut out): IntelFormatter or GasFormatter
FormatterOut(instruction, intel) ==
    IF intel THEN instruction.intel ELSE instruction.gas

\* the address written without a minimum width
FormatAddressUnpadded(ip, binary) ==
    (IF binary THEN FormatU64(ip, 2, 1) ELSE FormatU64(ip, 16, 1)) \o <<" ">>

\* format!("{:016b} ", ip) or format!("{:016X} ", ip)
FormatAddress(ip, binary) ==
    (IF binary THEN FormatU64(ip, 2, 16) ELSE FormatU64(ip, 16, 16)) \o <<" ">>

\* the loop over instr_bytes: every byte's digits and one space after them
RECURSIVE MachineCode(_, _)
MachineCode(instr_bytes, binary) ==
    IF instr_bytes = <<>> THEN <<>>
    ELSE MachineCode(SubSeq(instr_bytes, 1, Len(instr_bytes) - 1), binary)
         \o (IF binary THEN FormatU8(instr_bytes[Len(instr_bytes)], 2, 8)
                       ELSE FormatU8(instr_bytes[Len(instr_bytes)], 16, 2))
         \o <<" ">>

\* format!("{} | {:0width$} | {:<32} | {}\n", line, machine_code, op_code_string, out)
FormatLine(line, machine_code, op_code_string, out, width) ==
    line \o <<" ", "|", " ">> \o PadStr(machine_code, width)
         \o <<" ", "|", " ">> \o PadStr(op_code_string, 32)
         \o <<" ", "|", " ">> \o out \o <<"\n">>

\* instruction.ip() - rip
StartIndexSub(instruction) == U64Sub(instruction.ip, rip)

\* &bytes[start_index..start_index + instruction.len()]
SliceInRange(start_index, len) == start_index + len <= Len(bytes)

InstrBytes(start_index, len) == SubSeq(bytes, start_index + 1, start_index + len)

\* the line the closure returns for an instruction whose slice is in range
RenderLine(instruction) ==
    LET start_index == AsUsize(StartIndexSub(instruction).diff)
    IN  FormatLine(FormatAddress(instruction.ip, use_binary),
                   MachineCode(InstrBytes(start_index, instruction.len), use_binary),
                   instruction.op_code_string,
                   FormatterOut(instruction, use_intel),
                   Width(use_binary))

\* a collection that takes the results as the tasks hand them in
CollectInCompletionOrder == [i \in 1..Len(instructions) |-> slot[finished[i]]]

\* par_iter().map(..).collect::<Vec<String>>(): an indexed parallel iterator
\* writes result i into position i of the vector, whenever it was computed
CollectVec == [i \in 1..Len(instructions) |-> slot[i]]

(***************************************************************************)
(* extract_most_used_instructions                                          *)
(***************************************************************************)
\* the key taken from the formatter's text, which depends on the dialect
MnemonicKeyFromText(instruction) == ToLowercase(FormatterOut(instruction, use_intel))

\* format!("{:?}", instruction.mnemonic()).to_lowercase()
MnemonicKey(instruction) == ToLowercase(MnemonicDebug(instruction.mnemonic))

\* the counting loop: get_mut and increment, or insert 1
RECURSIVE CountMnemonics(_, _)
CountMnemonics(instrs, most_used) ==
    IF instrs = <<>> THEN most_used
    ELSE LET mnemonic == MnemonicKey(Head(instrs))
         IN  CountMnemonics(Tail(instrs),
                 IF mnemonic \in DOMAIN most_used
                 THEN [most_used EXCEPT ![mnemonic] = @ + 1]
                 ELSE most_used @@ (mnemonic :> 1))

EmptyMap == [k \in {} |-> 0]

\* HashMap::into_iter(): std's HashMap is seeded per map (RandomState), so the
\* entries come out in an order the program does not choose
IterationOrders(most_used) ==
    {order \in [1..Cardinality(DOMAIN most_used) -> DOMAIN most_used] :
        \A i, j \in DOMAIN order : i # j => order[i] # order[j]}

IntoVec(most_used, order) ==
    [i \in 1..Len(order) |-> <<order[i], most_used[order[i]]>>]

\* the comparison the other way round: v1.cmp(v2)
RECURSIVE SortByCountAscending(_)
SortByCountAscending(v) ==
    IF v = <<>> THEN <<>>
    ELSE LET sorted == SortByCountAscending(SubSeq(v, 1, Len(v) - 1))
             x == v[Len(v)]
             before == Cardinality({i \in 1..Len(sorted) : sorted[i][2] <= x[2]})
         IN  SubSeq(sorted, 1, before) \o <<x>> \o SubSeq(sorted, before + 1, Len(sorted))

\* sort_by(|(_, v1), (_, v2)| v2.cmp(v1)): a stable sort, larger counts first
RECURSIVE SortByCount(_)
SortByCount(v) ==
    IF v = <<>> THEN <<>>
    ELSE LET sorted == SortByCount(SubSeq(v, 1, Len(v) - 1))
             x == v[Len(v)]
             before == Cardinality({i \in 1..Len(sorted) : sorted[i][2] >= x[2]})
         IN  SubSeq(sorted, 1, before) \o <<x>> \o SubSeq(sorted, before + 1, Len(sorted))

(***************************************************************************)
(* extract_isa_extensions                                                  *)
(***************************************************************************)
\* a membership test that looks at the last element only
ContainsLast(v, x) == v # <<>> /\ v[Len(v)] = x

Contains(v, x) == \E i \in 1..Len(v) : v[i] = x

\* the inner loop over one instruction's cpuid_features()
RECURSIVE PushFeatures(_, _)
PushFeatures(features, res) ==
    IF features = <<>> THEN res
    ELSE LET str == FeatureDebug(Head(features))
         IN  PushFeatures(Tail(features),
                          IF ~Contains(res, str) THEN Append(res, str) ELSE res)

\* the outer loop over the instructions
RECURSIVE ExtractIsaExtensions(_, _)
ExtractIsaExtensions(instrs, res) ==
    IF instrs = <<>> THEN res
    ELSE ExtractIsaExtensions(Tail(instrs), PushFeatures(Head(instrs).cpuid_features, res))

(***************************************************************************)
(* The inputs.                                                             *)
(***************************************************************************)
SeqsUpTo(S, n) == UNION {[1..k -> S] : k \in 0..n}

\* 0x1000 and 0xFFFFFFFFFFFFFFFF
Rips == { <<0, 0, 0, 4096>>, <<65535, 65535, 65535, 65535>> }

\* 0, 0x1000, 0xFFFF, 0xFEDCBA9876543210 and 0xFFFFFFFFFFFFFFFF
LineRips == Rips \cup { U64Zero, <<0, 0, 0, 65535>>, <<65244, 47768, 30292, 12816>> }

\* an instruction of n bytes, for the specification that renders one line
LineBytes(n) == [i \in 1..n |->
    <<72, 184, 0, 15, 165, 255, 16, 1, 127, 128, 9, 240, 10, 7, 85, 170>>[((i - 1) % 16) + 1]]

LineShape(n) ==
    [mnemonic |-> "Mov", encoding |-> LineBytes(n), features |-> <<"X64">>,
     op_code_string |-> <<"o", "6", "4", " ", "B", "8", "+", "r", "o", " ", "i", "o">>,
     intel |-> <<"m", "o", "v">>, gas |-> <<"m", "o", "v", "q">>]

NopShape == CHOOSE s \in Shapes : s.mnemonic = "Nop"

\* one instruction of 1..MaxLen bytes, at the start of the buffer or after a nop
LineCodes ==
    {<<LineShape(n)>> : n \in 1..MaxLen} \cup {<<NopShape, LineShape(n)>> : n \in 1..MaxLen}

InitWith(codes, rips) ==
    /\ code \in codes
    /\ bytes = Encode(code)
    /\ rip \in rips
    /\ use_binary \in BOOLEAN
    /\ use_intel \in BOOLEAN
    /\ pc = "decode"
    /\ instructions = <<>>
    /\ slot = <<>>
    /\ finished = <<>>
    /\ reordered = FALSE
    /\ assembly = <<>>
    /\ most_used_instructions = <<>>
    /\ isa_extensions_used = <<>>
    /\ result = NoResult
    /\ call = 1
    /\ first = NoResult

Init == InitWith(SeqsUpTo(Shapes, MaxInstr), Rips)

InitTwice == InitWith(SeqsUpTo(Shapes, MaxInstrTwice), Rips)

InitLine == InitWith(LineCodes, LineRips)

(***************************************************************************)
(* disassemble, step by step.                                              *)
(***************************************************************************)
\* lines 24-27: the decoder runs over the whole buffer
Decode ==
    /\ pc = "decode"
    /\ instructions' = DecodeFrom(code, rip)
    /\ slot' = [i \in 1..Len(code) |-> NoLine]
    /\ pc' = "render"
    /\ UNCHANGED <<bytes, code, rip, use_binary, use_intel, finished, reordered, assembly,
                   most_used_instructions, isa_extensions_used, result, call, first>>

\* one task of the parallel map runs to its end.  An underflowing
\* `instruction.ip() - rip` wraps in a build without overflow checks.
RenderTask(i) ==
    /\ pc = "render"
    /\ slot[i] = NoLine
    /\ SliceInRange(AsUsize(StartIndexSub(instructions[i]).diff), instructions[i].len)
    /\ slot' = [slot EXCEPT ![i] = RenderLine(instructions[i])]
    /\ finished' = Append(finished, i)
    /\ reordered' = (reordered \/ \E k \in 1..Len(finished) : finished[k] > i)
    /\ UNCHANGED <<bytes, code, rip, use_binary, use_intel, pc, instructions, assembly,
                   most_used_instructions, isa_extensions_used, result, call, first>>

\* one task panics: "attempt to subtract with overflow" in a build with overflow
\* checks, or a slice index out of range.  rayon resumes the panic in the
\* caller, and disassemble unwinds without a result.
RenderPanic(i) ==
    /\ pc = "render"
    /\ slot[i] = NoLine
    /\ \/ StartIndexSub(instructions[i]).underflow
       \/ ~SliceInRange(AsUsize(StartIndexSub(instructions[i]).diff), instructions[i].len)
    /\ pc' = "panicked"
    /\ UNCHANGED <<bytes, code, rip, use_binary, use_intel, instructions, slot, finished,
                   reordered, assembly, most_used_instructions, isa_extensions_used,
                   result, call, first>>

\* line 94: every task has returned and the results are moved into the vector
Collect ==
    /\ pc = "render"
    /\ \A i \in 1..Len(instructions) : slot[i] # NoLine
    /\ assembly' = CollectVec
    /\ slot' = <<>>
    /\ finished' = <<>>
    /\ pc' = "most_used"
    /\ UNCHANGED <<bytes, code, rip, use_binary, use_intel, instructions, reordered,
                   most_used_instructions, isa_extensions_used, result, call, first>>

\* line 30; the history of the parallel map is forgotten
ExtractMostUsed ==
    /\ pc = "most_used"
    /\ LET most_used == CountMnemonics(instructions, EmptyMap)
       IN  \E order \in IterationOrders(most_used) :
               most_used_instructions' = SortByCount(IntoVec(most_used, order))
    /\ reordered' = FALSE
    /\ pc' = "isa"
    /\ UNCHANGED <<bytes, code, rip, use_binary, use_intel, instructions, slot, finished,
                   assembly, isa_extensions_used, result, call, first>>

\* line 31
ExtractIsa ==
    /\ pc = "isa"
    /\ isa_extensions_used' = ExtractIsaExtensions(instructions, <<>>)
    /\ pc' = "return"
    /\ UNCHANGED <<bytes, code, rip, use_binary, use_intel, instructions, slot, finished,
                   reordered, assembly, most_used_instructions, result, call, first>>

\* lines 33-37: the three vectors are moved into the DisassemblerResult
Return ==
    /\ pc = "return"
    /\ result' = [assembly |-> assembly,
                  most_used_instructions |-> most_used_instructions,
                  isa_extensions_used |-> isa_extensions_used]
    /\ assembly' = <<>>
    /\ most_used_instructions' = <<>>
    /\ isa_extensions_used' = <<>>
    /\ pc' = "done"
    /\ UNCHANGED <<bytes, code, rip, use_binary, use_intel, instructions, slot, finished,
                   reordered, call, first>>

\* the caller keeps the result and calls disassemble again on the same bytes,
\* bitness and rip, with flags of its choice
CallAgain ==
    /\ pc = "done"
    /\ call = 1
    /\ first' = [use_binary |-> use_binary, use_intel |-> use_intel, result |-> result]
    /\ call' = 2
    /\ use_binary' \in BOOLEAN
    /\ use_intel' \in BOOLEAN
    /\ pc' = "decode"
    /\ instructions' = <<>>
    /\ result' = NoResult
    /\ UNCHANGED <<bytes, code, rip, slot, finished, reordered, assembly,
                   most_used_instructions, isa_extensions_used>>

\* extract_assembly alone, from the decoder to the returned vector
NextLine ==
    \/ Decode
    \/ \E i \in 1..Len(instructions) : RenderTask(i)
    \/ \E i \in 1..Len(instructions) : RenderPanic(i)
    \/ Collect

Next ==
    \/ NextLine
    \/ ExtractMostUsed
    \/ ExtractIsa
    \/ Return

NextTwice == Next \/ CallAgain

\* one call of disassemble
Spec == Init /\ [][Next]_vars

\* two calls of disassemble on the same bytes, bitness and rip
SpecTwice == InitTwice /\ [][NextTwice]_vars

\* extract_assembly on one instruction of every length
SpecLine == InitLine /\ [][NextLine]_vars

(***************************************************************************)
(* Reading a line back: the fields between the `|` separators, and the     *)
(* numbers written in them.                                                *)
(***************************************************************************)
\* the k-th smallest member of a set of numbers
Nth(S, k) == CHOOSE x \in S : Cardinality({y \in S : y < x}) = k - 1

Bars(line) == {i \in 1..Len(line) : line[i] = "|"}

FirstBar(line) == Nth(Bars(line), 1)

SecondBar(line) == Nth(Bars(line), 2)

\* everything in front of the first " | "
AddressField(line) == SubSeq(line, 1, FirstBar(line) - 2)

\* everything between the first " | " and the second
DumpField(line) == SubSeq(line, FirstBar(line) + 2, SecondBar(line) - 2)

DigitValue(c) == (CHOOSE i \in 1..16 : DigitChar[i] = c) - 1

IsDigits(d, base) ==
    \A i \in 1..Len(d) : \E v \in 1..base : DigitChar[v] = d[i]

RECURSIVE ParseNat(_, _)
ParseNat(d, base) ==
    IF d = <<>> THEN 0
    ELSE ParseNat(SubSeq(d, 1, Len(d) - 1), base) * base + DigitValue(d[Len(d)])

\* the u64 that at most 64 binary or 16 hexadecimal digits denote
ParseU64(d, base) ==
    LET n == LimbDigits(base)
        full == ZeroPad(d, 4 * n)
    IN  [k \in 1..4 |-> ParseNat(SubSeq(full, (k - 1) * n + 1, k * n), base)]

\* the space-separated groups of a field, in order; runs of spaces separate
GroupStarts(field) ==
    {i \in 1..Len(field) : field[i] # " " /\ (i = 1 \/ field[i - 1] = " ")}

GroupEnds(field) ==
    {i \in 1..Len(field) : field[i] # " " /\ (i = Len(field) \/ field[i + 1] = " ")}

Groups(field) ==
    LET starts == GroupStarts(field)
        ends == GroupEnds(field)
    IN  [k \in 1..Cardinality(starts) |-> SubSeq(field, Nth(starts, k), Nth(ends, k))]

\* a byte dump parsed back: 8-digit binary groups or 2-digit hex pairs; a
\* group of any other form parses to -1
ParseDump(field, binary) ==
    LET groups == Groups(field)
        base == IF binary THEN 2 ELSE 16
        digits == IF binary THEN 8 ELSE 2
    IN  [k \in 1..Len(groups) |->
            IF Len(groups[k]) = digits /\ IsDigits(groups[k], base)
            THEN ParseNat(groups[k], base) ELSE -1]

\* where instruction i starts in the buffer: the bytes of the ones before it
RECURSIVE Offset(_)
Offset(i) == IF i <= 1 THEN 0 ELSE Offset(i - 1) + Len(code[i - 1].encoding)

\* the significant binary digits of a u64 (1 for zero)
BitLength(v) == Len(StripLeadingZeros(
    FixedDigits(v[1], 2, 16) \o FixedDigits(v[2], 2, 16)
    \o FixedDigits(v[3], 2, 16) \o FixedDigits(v[4], 2, 16)))

Max(a, b) == IF a >= b THEN a ELSE b

\* extract_assembly has returned `assembly`
Rendered == pc = "most_used"

\* disassemble has returned `result`
Returned == pc = "done"

\* the sum of the counts of a list of (mnemonic, count) pairs
RECURSIVE SumCounts(_)
SumCounts(v) == IF v = <<>> THEN 0 ELSE Head(v)[2] + SumCounts(Tail(v))

\* the lowercase name of instruction i's mnemonic
LowerName(i) == ToLowercase(MnemonicDebug(code[i].mnemonic))

\* the feature names of the first n instructions, in scanning order
RECURSIVE FlatTags(_)
FlatTags(n) ==
    IF n = 0 THEN <<>>
    ELSE FlatTags(n - 1)
         \o [k \in 1..Len(code[n].features) |-> FeatureDebug(code[n].features[k])]

\* where x first occurs in v
FirstIndex(v, x) ==
    CHOOSE i \in 1..Len(v) : v[i] = x /\ \A j \in 1..Len(v) : v[j] = x => i <= j

\* two lists with the same elements, each as often in one as in the other
Occurrences(v, x) == Cardinality({i \in 1..Len(v) : v[i] = x})

SameMultiset(v, w) ==
    /\ Len(v) = Len(w)
    /\ \A i \in 1..Len(v) : Occurrences(v, v[i]) = Occurrences(w, v[i])

\* the digits of a line's address field, without the space that ends it
AddressDigits(line) == SubSeq(AddressField(line), 1, Len(AddressField(line)) - 1)

\* the address the decoder gives instruction i, from the buffer's layout
AddressOf(i) == U64WrappingAdd(rip, U64FromSmall(Offset(i)))

NumberBase == IF use_binary THEN 2 ELSE 16

(***************************************************************************)
(* C1: whatever order the parallel rendering tasks finish in, the returned *)
(* vector has one entry per instruction and entry i is the line of         *)
(* instruction i, whose address field reads back as instruction i's        *)
(* address in the requested numeric mode.                                  *)
(***************************************************************************)
C1_LinesInInstructionOrder ==
    Rendered =>
        /\ Len(assembly) = Len(code)
        /\ \A i \in 1..Len(code) :
            /\ assembly[i] = RenderLine(instructions[i])
            /\ IsDigits(AddressDigits(assembly[i]), NumberBase)
            /\ ParseU64(AddressDigits(assembly[i]), NumberBase) = AddressOf(i)

\* C1, witness: three lines, one of them rendered after a later instruction's
C1_Witness ==
    /\ pc = "most_used"
    /\ Len(code) = 3
    /\ reordered
    /\ assembly[1] # assembly[3]

(***************************************************************************)
(* C2: two calls with identical inputs return identical assembly,          *)
(* identical most_used_instructions (the order of equal counts included)   *)
(* and identical isa_extensions_used.                                      *)
(***************************************************************************)
C2_Idempotent ==
    (/\ call = 2
     /\ pc = "done"
     /\ use_binary = first.use_binary
     /\ use_intel = first.use_intel) => result = first.result

(***************************************************************************)
(* C3: every lowercase mnemonic is in exactly one pair, a pair's count is  *)
(* the number of instructions of that mnemonic, the counts add up to the   *)
(* number of instructions and the list is sorted by count, largest first.  *)
(***************************************************************************)
C3_CountsSorted ==
    Returned =>
        LET mu == result.most_used_instructions
        IN  /\ \A a, b \in 1..Len(mu) : a # b => mu[a][1] # mu[b][1]
            /\ \A i \in 1..Len(code) : \E a \in 1..Len(mu) : mu[a][1] = LowerName(i)
            /\ \A a \in 1..Len(mu) :
                /\ \A k \in 1..Len(mu[a][1]) :
                       ~\E u \in 1..26 : UpperChars[u] = mu[a][1][k]
                /\ mu[a][2] = Cardinality({i \in 1..Len(code) : LowerName(i) = mu[a][1]})
                /\ mu[a][2] >= 1
            /\ SumCounts(mu) = Len(code)
            /\ \A a, b \in 1..Len(mu) : a < b => mu[a][2] >= mu[b][2]

\* C3, witness: the mnemonic seen first is the rarer one, and ends up second
C3_Witness ==
    /\ pc = "done"
    /\ Len(result.most_used_instructions) = 2
    /\ result.most_used_instructions[1][2] = 2
    /\ result.most_used_instructions[2][2] = 1
    /\ result.most_used_instructions[2][1] = LowerName(1)

(***************************************************************************)
(* C4: isa_extensions_used has no duplicates, holds exactly the feature    *)
(* names that occur in some instruction's feature list, and orders them by *)
(* first appearance, also when a name repeats within or across             *)
(* instructions.                                                           *)
(***************************************************************************)
C4_FirstSeenNoDuplicates ==
    Returned =>
        LET isa == result.isa_extensions_used
            flat == FlatTags(Len(code))
        IN  /\ \A a, b \in 1..Len(isa) : a # b => isa[a] # isa[b]
            /\ {isa[a] : a \in 1..Len(isa)} = {flat[k] : k \in 1..Len(flat)}
            /\ \A a, b \in 1..Len(isa) :
                   a < b => FirstIndex(flat, isa[a]) < FirstIndex(flat, isa[b])

\* C4, witness: a name repeats within one instruction and across two instructions
C4_Witness ==
    /\ pc = "done"
    /\ Len(result.isa_extensions_used) = 3
    /\ \E i \in 1..Len(code) : \E a, b \in 1..Len(code[i].features) :
           a # b /\ code[i].features[a] = code[i].features[b]
    /\ \E i, j \in 1..Len(code) :
           i # j /\ code[i].features # <<>> /\ code[i].features = code[j].features

(***************************************************************************)
(* C5: the byte-dump field of line i, padding included, parsed back as     *)
(* space-separated 8-digit binary groups or 2-digit uppercase hex pairs,   *)
(* is exactly the bytes of instruction i, in order.                        *)
(***************************************************************************)
C5_DumpRoundTrip ==
    Rendered =>
        \A i \in 1..Len(code) :
            ParseDump(DumpField(assembly[i]), use_binary)
                = SubSeq(bytes, Offset(i) + 1, Offset(i) + Len(code[i].encoding))

\* C5, witness: a one-byte instruction, whose dump is padded, and a fifteen-byte
\* one after it
C5_Witness ==
    /\ pc = "most_used"
    /\ Len(code) = 2
    /\ Len(code[1].encoding) = 1
    /\ Len(code[2].encoding) = 15
    /\ Len(DumpField(assembly[1])) > 9
    /\ Len(ParseDump(DumpField(assembly[2]), use_binary)) = 15

(***************************************************************************)
(* C6: when the decoder cannot parse a region of the buffer, disassemble   *)
(* returns no DisassemblerResult.                                          *)
(***************************************************************************)
C6_DecodeFailurePropagates ==
    (\E i \in 1..Len(instructions) : instructions[i].mnemonic = "INVALID")
        => result = NoResult

(***************************************************************************)
(* C7: for every buffer and every rip, `address - rip` does not underflow, *)
(* the slice of every instruction lies within the buffer and never aborts, *)
(* and the addresses are non-decreasing and contiguous.                    *)
(***************************************************************************)
C7_NoUnderflowInRange ==
    /\ pc # "panicked"
    /\ \A i \in 1..Len(instructions) :
        /\ ~StartIndexSub(instructions[i]).underflow
        /\ SliceInRange(AsUsize(StartIndexSub(instructions[i]).diff), instructions[i].len)
        /\ i > 1 =>
            /\ U64Leq(instructions[i - 1].ip, instructions[i].ip)
            /\ instructions[i].ip =
                   U64WrappingAdd(instructions[i - 1].ip,
                                  U64FromSmall(instructions[i - 1].len))

(***************************************************************************)
(* C8, as claimed: the address field of every line is exactly 16 digits    *)
(* and a space, in binary when use_binary and in uppercase hexadecimal     *)
(* otherwise.                                                              *)
(***************************************************************************)
C8_AddressSixteenDigits ==
    Rendered =>
        \A i \in 1..Len(code) :
            /\ Len(AddressField(assembly[i])) = 17
            /\ AddressField(assembly[i])[17] = " "
            /\ IsDigits(AddressDigits(assembly[i]), NumberBase)
            /\ ParseU64(AddressDigits(assembly[i]), NumberBase) = AddressOf(i)

(***************************************************************************)
(* C8, amended: the address field is the address's digits and one space;   *)
(* the digits are exactly 16 uppercase hexadecimal digits when use_binary  *)
(* is false, and the binary digits zero-padded to at least 16 when it is   *)
(* true: 16 digits for an address below 2^16, the address's 17 to 64       *)
(* significant digits otherwise.                                           *)
(***************************************************************************)
C8_AddressAtLeastSixteenDigits ==
    Rendered =>
        \A i \in 1..Len(code) :
            LET field == AddressField(assembly[i])
                digits == AddressDigits(assembly[i])
            IN  /\ field[Len(field)] = " "
                /\ IsDigits(digits, NumberBase)
                /\ Len(digits) <= 4 * LimbDigits(NumberBase)
                /\ ParseU64(digits, NumberBase) = AddressOf(i)
                /\ Len(digits) = IF use_binary THEN Max(16, BitLength(AddressOf(i)))
                                               ELSE 16

\* C8, witness: binary mode, one address of 64 digits and one zero-padded to 16
C8_Witness ==
    /\ pc = "most_used"
    /\ use_binary
    /\ \E i, j \in 1..Len(code) :
        /\ Len(AddressDigits(assembly[i])) = 64
        /\ Len(AddressDigits(assembly[j])) = 16
        /\ AddressDigits(assembly[j])[1] = "0"

(***************************************************************************)
(* C9, as claimed: the byte-dump field of every line is exactly 80         *)
(* characters wide when use_binary and exactly 32 otherwise.               *)
(***************************************************************************)
C9_DumpFixedWidth ==
    Rendered =>
        \A i \in 1..Len(code) :
            Len(DumpField(assembly[i])) = IF use_binary THEN 80 ELSE 32

(***************************************************************************)
(* C9, amended: the byte dump is followed by spaces up to a width of at    *)
(* least 80 (binary) or 32 (hexadecimal).  The field is exactly that wide  *)
(* for instructions of up to 8 bytes in binary and up to 10 bytes in       *)
(* hexadecimal; a longer instruction's field is as wide as its dump, 9 or  *)
(* 3 characters a byte.                                                    *)
(***************************************************************************)
C9_DumpMinimumWidth ==
    Rendered =>
        \A i \in 1..Len(code) :
            LET field == DumpField(assembly[i])
                dump == Len(code[i].encoding) * (IF use_binary THEN 9 ELSE 3)
            IN  /\ Len(field) = Max(IF use_binary THEN 80 ELSE 32, dump)
                /\ \A k \in 1..Len(field) : k > dump => field[k] = " "
                /\ dump > 0 => field[dump] = " " /\ field[dump - 1] # " "

\* C9, witness: a line with a padded one-byte dump and a line whose dump
\* exceeds the width
C9_Witness ==
    /\ pc = "most_used"
    /\ \E i, j \in 1..Len(code) :
        /\ Len(code[i].encoding) = 1
        /\ Len(DumpField(assembly[i])) = (IF use_binary THEN 80 ELSE 32)
        /\ Len(DumpField(assembly[j])) > (IF use_binary THEN 80 ELSE 32)

(***************************************************************************)
(* C10: for fixed bytes, bitness and rip, two calls with any two choices   *)
(* of (use_binary, use_intel) return the same multiset of (mnemonic,       *)
(* count) pairs and the same isa_extensions_used sequence.                 *)
(***************************************************************************)
C10_StatisticsIgnoreFlags ==
    (call = 2 /\ pc = "done") =>
        /\ SameMultiset(result.most_used_instructions,
                        first.result.most_used_instructions)
        /\ result.isa_extensions_used = first.result.isa_extensions_used

\* C10, witness: both flags differ between the calls, and the dialects print
\* the mnemonic of some instruction differently
C10_Witness ==
    /\ call = 2
    /\ pc = "done"
    /\ use_binary # first.use_binary
    /\ use_intel # first.use_intel
    /\ result.assembly # first.result.assembly
    /\ \E i \in 1..Len(code) : code[i].intel # code[i].gas
    /\ Len(result.most_used_instructions) = 2
    /\ result.isa_extensions_used # <<>>

====
